---- MODULE Spec2Model ----
(***************************************************************************)
(* Model of pfp's project picker: pick_project (src/src/selectors.rs) and  *)
(* the directory-tree classifier get_included_paths_list (src/src/fs.rs),  *)
(* and of the loading of the configuration in cli (src/src/cli.rs).        *)
(*                                                                         *)
(* A path is the sequence of its segments (<<"repo", "sub">> is the string *)
(* "repo/sub"); a directory listing is the sequence of entries read_dir    *)
(* returns, in the order it returns them.                                  *)
(***************************************************************************)
EXTENDS Integers, Sequences, FiniteSets, TLC

VARIABLES
    fs,             \* the file system: readable directory path -> its listing
    config,         \* the Config read at startup (markers, ignore, include)
    pc,             \* position of pick_project
    ei,             \* index of the include entry being processed
    pi,             \* index of the path of that entry being processed
    expanded_path,  \* result of expand(path) for the current path
    list,           \* the output list of pick_project
    err,            \* the error pick_project returned, "none" if none
    shown,          \* the list handed to the selector, NotShown before that
    pick,           \* the line the selector returned
    scan,           \* log of the classifier call made for the last root
    cli,            \* the run of cli: its inputs, its position, its locals
    walk            \* one chain of nested classifier calls: its depth counter

vars ==
    <<fs, config, pc, ei, pi, expanded_path, list, err, shown, pick, scan, cli,
      walk>>

(***************************************************************************)
(* Bounds of the model.                                                    *)
(***************************************************************************)
MaxDepth == 1       \* include entries use depth 0..MaxDepth, and 10
MaxPaths == 2       \* an include entry lists 1..MaxPaths root paths

Range(s) == {s[k] : k \in 1..Len(s)}

(***************************************************************************)
(* File names.  TLC strings are atomic, so the two tests the code makes on *)
(* the characters of a name are given by the names they hold for.          *)
(***************************************************************************)
BadName == "\\xFF"                      \* a name that is not valid UTF-8
IsUtf8(name) == name # BadName          \* OsStr::to_str is Some
StartsWithDot(name) == name \in {".git", ".DS_Store"}

(***************************************************************************)
(* Regular expressions: "^s" (names that start with s), and "(" and "*",    *)
(* which do not compile.                                                   *)
(***************************************************************************)
RegexValid(p) == p \in {"^s"}
RegexIsMatch(p, name) == p = "^s" /\ name \in {"sub", "src"}
RegexSetNewOk(ps) == \A p \in ps : RegexValid(p)
\* RegexSet::matches(name): the SetMatches value, which tells for each
\* pattern of the set whether it matches name
RegexSetMatches(ps, name) == [p \in ps |-> RegexIsMatch(p, name)]
\* SetMatches::len(): the number of patterns of the set the matches were
\* made with, whether they matched or not
SetMatchesLen(m) == Cardinality(DOMAIN m)

(***************************************************************************)
(* Configuration (src/src/config.rs).                                      *)
(***************************************************************************)
MARKERS_EXACT_DEFAULT == {".git", "Cargo.toml", "go.mod"}
MARKERS_PATTERN_DEFAULT == {}
IGNORE_EXACT_DEFAULT ==
    {".DS_Store", "node_modules", "venv", "bin", "target", "debug", "src",
     "test", "tests", "lib", "docs", "pkg"}
IGNORE_PATTERN_DEFAULT == {}

MarkersDefault ==
    [exact |-> MARKERS_EXACT_DEFAULT, pattern |-> MARKERS_PATTERN_DEFAULT,
     traverse_hidden |-> TRUE, chain_root_markers |-> TRUE]
IgnoreDefault ==
    [exact |-> IGNORE_EXACT_DEFAULT, pattern |-> IGNORE_PATTERN_DEFAULT,
     chain_root_ignore |-> TRUE]

\* The markers objects an include entry is given in the model.
MarkersChoices ==
    { [exact |-> {".git"}, pattern |-> {}, traverse_hidden |-> TRUE,
       chain_root_markers |-> TRUE],
      [exact |-> {}, pattern |-> {"^s"}, traverse_hidden |-> FALSE,
       chain_root_markers |-> FALSE],
      [exact |-> {}, pattern |-> {"("}, traverse_hidden |-> TRUE,
       chain_root_markers |-> TRUE],
      [exact |-> {}, pattern |-> {}, traverse_hidden |-> TRUE,
       chain_root_markers |-> FALSE] }

\* The ignore objects an include entry is given in the model.
IgnoreChoices ==
    { IgnoreDefault,
      [exact |-> {}, pattern |-> {}, chain_root_ignore |-> FALSE],
      [exact |-> {}, pattern |-> {"^s"}, chain_root_ignore |-> FALSE],
      [exact |-> {}, pattern |-> {"("}, chain_root_ignore |-> FALSE] }

DepthChoices == (0..MaxDepth) \cup {10}

(***************************************************************************)
(* Configured root paths and expand.  A segment that starts with $ names   *)
(* an environment variable; WS is set to "repo", HOME to "/home/u", UNSET  *)
(* is not set, and XDG_CONFIG_HOME is what the run of cli finds in its     *)
(* environment.  The value of a variable is a string, given by its         *)
(* segments like a path: <<"">> is the empty string, and a value that      *)
(* starts with "/" has the empty string for its first segment, so that     *)
(* "${XDG_CONFIG_HOME}/pfp/config.json" with the variable set to "" is     *)
(* <<"", "pfp", "config.json">>, the string "/pfp/config.json".            *)
(***************************************************************************)
ConfigPaths == { <<"repo">>, <<"$WS", "sub">>, <<"$UNSET", "x">> }

IsVarRef(seg) == seg \in {"$WS", "$HOME", "$UNSET", "${XDG_CONFIG_HOME}"}
EnvIsSet(seg) ==
    seg \in {"$WS", "$HOME"} \/ (seg = "${XDG_CONFIG_HOME}" /\ cli.xdg.set)
EnvValue(seg) ==
    IF seg = "${XDG_CONFIG_HOME}" THEN cli.xdg.value
    ELSE IF seg = "$HOME" THEN <<"", "home", "u">>
    ELSE <<"repo">>

RECURSIVE ExpandSegs(_, _)
ExpandSegs(path, k) ==
    IF k > Len(path) THEN <<>>
    ELSE (IF IsVarRef(path[k]) /\ EnvIsSet(path[k]) THEN EnvValue(path[k])
          ELSE IF IsVarRef(path[k]) THEN <<"">>
          ELSE <<path[k]>>) \o ExpandSegs(path, k + 1)

\* expand: Err(EnvVar) when a referenced variable is not set.
expand(path) ==
    IF \E k \in 1..Len(path) : IsVarRef(path[k]) /\ ~EnvIsSet(path[k])
    THEN [err |-> "EnvVar", path |-> <<>>]
    ELSE [err |-> "none", path |-> ExpandSegs(path, 1)]

PathSeqs == UNION { [1..n -> ConfigPaths] : n \in 1..MaxPaths }

IncludeEntries ==
    [paths : PathSeqs,
     mode : {"dir", "file"},
     markers : MarkersChoices,
     ignore : IgnoreChoices,
     include_intermediate_paths : BOOLEAN,
     yield_on_marker : BOOLEAN,
     depth : DepthChoices]

\* IncludeEntry::default() with one path, and a file-listing entry: the
\* entries that follow the first include entry in the model
TailEntries ==
    { [paths |-> << <<"$WS", "sub">> >>, mode |-> "dir",
       markers |-> MarkersDefault, ignore |-> IgnoreDefault,
       include_intermediate_paths |-> TRUE, yield_on_marker |-> TRUE,
       depth |-> 255],
      [paths |-> << <<"repo">> >>, mode |-> "file",
       markers |-> MarkersDefault,
       ignore |-> [exact |-> {}, pattern |-> {}, chain_root_ignore |-> FALSE],
       include_intermediate_paths |-> FALSE, yield_on_marker |-> TRUE,
       depth |-> 0] }

IncludeChoices ==
    { <<e>> : e \in IncludeEntries }
    \cup { <<e, t>> : e \in {x \in IncludeEntries : Len(x.paths) = 1},
                      t \in TailEntries }

ConfigChoices ==
    { [markers |-> MarkersDefault, ignore |-> IgnoreDefault, include |-> inc] :
        inc \in IncludeChoices }

\* Configurations whose global sets differ from the sets of the entry: the
\* entry chains them or not, and its own sets hold nothing, a name of their
\* own, or the value "*".
GlobalChoices ==
    { [markers |-> MarkersDefault, ignore |-> IgnoreDefault],
      [markers |-> [exact |-> {}, pattern |-> {"^s"}, traverse_hidden |-> TRUE,
                    chain_root_markers |-> TRUE],
       ignore |-> [exact |-> {}, pattern |-> {"^s"},
                   chain_root_ignore |-> TRUE]] }
ChainMarkers ==
    { [exact |-> {}, pattern |-> {}, traverse_hidden |-> TRUE,
       chain_root_markers |-> TRUE],
      [exact |-> {}, pattern |-> {}, traverse_hidden |-> TRUE,
       chain_root_markers |-> FALSE],
      [exact |-> {"f"}, pattern |-> {}, traverse_hidden |-> TRUE,
       chain_root_markers |-> TRUE],
      [exact |-> {"*"}, pattern |-> {}, traverse_hidden |-> TRUE,
       chain_root_markers |-> FALSE],
      [exact |-> {}, pattern |-> {"*"}, traverse_hidden |-> TRUE,
       chain_root_markers |-> FALSE] }
ChainIgnore ==
    { [exact |-> {}, pattern |-> {}, chain_root_ignore |-> TRUE],
      [exact |-> {"sub"}, pattern |-> {}, chain_root_ignore |-> TRUE],
      [exact |-> {"sub"}, pattern |-> {}, chain_root_ignore |-> FALSE] }
ChainEntries ==
    [paths : { << <<"repo">> >> },
     mode : {"dir", "file"},
     markers : ChainMarkers,
     ignore : ChainIgnore,
     include_intermediate_paths : BOOLEAN,
     yield_on_marker : BOOLEAN,
     depth : DepthChoices]
ChainConfigs ==
    { [markers |-> g.markers, ignore |-> g.ignore, include |-> <<e>>] :
        g \in GlobalChoices, e \in ChainEntries }

(***************************************************************************)
(* File systems of the model.                                              *)
(***************************************************************************)
DirEntry(n, k) == [name |-> n, kind |-> k]
G == DirEntry(".git", "dir")
S == DirEntry("sub", "dir")
C == DirEntry("src", "dir")
F == DirEntry("f", "file")
B == DirEntry(BadName, "file")
\* symbolic links; the name of a link tells its target (LinkTarget)
L == DirEntry("loop", "symlink")        \* -> /repo, an ancestor of the link
D == DirEntry("dangling", "symlink")    \* -> /repo/gone, which does not exist
FL == DirEntry("flink", "symlink")      \* -> f, the file beside the link
AL == DirEntry("alink", "symlink")      \* -> /repo/sub/f
\* stands for a directory that read_dir cannot read
Unreadable == << DirEntry("", "EACCES") >>

RootListings ==
    { <<G, S>>, <<S, C>>, <<F, S>>, <<>>, <<S, B>>, Unreadable,
      <<G, B>>, <<B, G>> }
SubListings == { <<G>>, <<S>>, <<F, S>>, <<>>, Unreadable, <<D, F, FL, AL>> }
SubSubListings == { <<G>>, <<F>> }

\* the listing a plan (r, s, t) gives the directory at path p
ListingOf(p, r, s, t) ==
    IF Len(p) = 1 THEN r
    ELSE IF p[Len(p)] = "sub" /\ Len(p) = 2 THEN s
    ELSE IF p[Len(p)] = "sub" /\ Len(p) = 3 THEN t
    ELSE IF p[Len(p)] = "src" THEN <<G>>
    ELSE <<>>

Front(p) == SubSeq(p, 1, Len(p) - 1)
Name(p) == p[Len(p)]

RECURSIVE DirExists(_, _, _, _)
DirExists(p, r, s, t) ==
    IF Len(p) = 1 THEN p = <<"repo">>
    ELSE /\ DirExists(Front(p), r, s, t)
         /\ DirEntry(p[Len(p)], "dir") \in Range(ListingOf(Front(p), r, s, t))

DirNames == {".git", "sub", "src"}
CandidatePaths ==
    { <<"repo">> \o q : q \in UNION { [1..n -> DirNames] : n \in 0..3 } }

Tree(r, s, t) ==
    [p \in { q \in CandidatePaths :
                DirExists(q, r, s, t) /\ ListingOf(q, r, s, t) # Unreadable }
        |-> ListingOf(p, r, s, t)]

\* the tree with a directory cycle: repo/sub/loop leads back to repo
LoopFs == Tree(<<G, S>>, <<L>>, <<G>>)

\* a tree of directories nested as deep as a u8 counts: repo/sub/sub/...
DeepFs ==
    [p \in { <<"repo">> \o [k \in 1..n |-> "sub"] : n \in 0..255 } |-> <<S>>]

FsChoices ==
    { Tree(r, s, t) : r \in RootListings, s \in SubListings, t \in SubSubListings }
    \cup { LoopFs }

(***************************************************************************)
(* Symbolic links.  fs::read_link returns the text of the link: an         *)
(* absolute path, or a path relative to the directory that holds the link. *)
(* Path::is_dir and Path::is_file on that text go through fs::metadata,    *)
(* which resolves a relative path against the working directory of the     *)
(* process; in the model that directory lies outside the scanned tree and  *)
(* holds none of the names, so a relative text resolves to nothing there.  *)
(* The kernel, which read_dir goes through, resolves every link properly.  *)
(***************************************************************************)
LinkNames == {"loop", "dangling", "flink", "alink"}
LinkTarget(name) ==
    IF name = "loop" THEN [abs |-> TRUE, path |-> <<"repo">>]
    ELSE IF name = "dangling" THEN [abs |-> TRUE, path |-> <<"repo", "gone">>]
    ELSE IF name = "alink" THEN [abs |-> TRUE, path |-> <<"repo", "sub", "f">>]
    ELSE [abs |-> FALSE, path |-> <<"f">>]

\* the kernel follows at most this many links in the resolution of one
\* path; with more, the resolution fails (ELOOP, FilesystemLoop)
MaxSymlinks == 40
\* the resolution of a path failed: there is no path
NoPath == <<>>

\* the path without its links: what follows the last link of p, below the
\* target of that link (the links of the model are absolute where a path
\* goes on below them); NoPath when p goes through more than MaxSymlinks
\* links
Canon(p) ==
    LET ks == {k \in 1..Len(p) : p[k] \in LinkNames} IN
    IF ks = {} THEN p
    ELSE IF Cardinality(ks) > MaxSymlinks THEN NoPath
    ELSE LET k == CHOOSE x \in ks : \A y \in ks : y <= x
             t == LinkTarget(p[k])
         IN (IF t.abs THEN t.path ELSE SubSeq(p, 1, k - 1) \o t.path)
            \o SubSeq(p, k + 1, Len(p))

\* p, free of links, is a directory (readable or not) / a file
RealDir(p) ==
    \/ p = <<"repo">>
    \/ p \in DOMAIN fs
    \/ /\ Len(p) > 1
       /\ Front(p) \in DOMAIN fs
       /\ DirEntry(Name(p), "dir") \in Range(fs[Front(p)])
RealFile(p) ==
    /\ Len(p) > 1
    /\ Front(p) \in DOMAIN fs
    /\ DirEntry(Name(p), "file") \in Range(fs[Front(p)])

\* std::fs::read_dir(path) is Ok, and the entries it then gives
Readable(path) == Canon(path) \in DOMAIN fs
ReadDir(path) == fs[Canon(path)]

\* None of read_link: the link could not be read
NoLink == [abs |-> FALSE, path |-> NoPath]
\* fs::read_link(path): the text of the link at path, when the directory
\* that holds the link can be resolved
read_link(path) ==
    IF Canon(Front(path)) = NoPath THEN NoLink ELSE LinkTarget(Name(path))
\* Path::is_dir / Path::is_file on the text of a link
PathIsDir(t) == t.abs /\ RealDir(Canon(t.path))
PathIsFile(t) == t.abs /\ RealFile(Canon(t.path))

(***************************************************************************)
(* The classifier (src/src/fs.rs).                                         *)
(***************************************************************************)
\* pick_project keeps its list in a Vec and pushes the roots to it
\* (selectors.rs:28, 33); the classifier adds to the same list through its
\* output parameter with insert(path, ()), which keeps a path that is already
\* there once (fs.rs:68, 131).  The list is modelled as a sequence in insertion
\* order, and each of the two calls has its own effect on it.

\* a variant of Insert that appends without looking for the key (Vec::push)
InsertPush(output, p) == Append(output, p)

\* HashMap::insert(path, ()) on the output: a key already present is kept once
Insert(output, p) == IF p \in Range(output) THEN output ELSE Append(output, p)

\* a variant of MarkersExact that leaves the global set out
MarkersExactOwn(ie) == ie.markers.exact

MarkersExact(ie) ==
    ie.markers.exact \cup
        (IF ie.markers.chain_root_markers THEN config.markers.exact ELSE {})
MarkersPattern(ie) ==
    ie.markers.pattern \cup
        (IF ie.markers.chain_root_markers THEN config.markers.pattern ELSE {})
IgnoreExact(ie) ==
    ie.ignore.exact \cup
        (IF ie.ignore.chain_root_ignore THEN config.ignore.exact ELSE {})
IgnorePattern(ie) ==
    ie.ignore.pattern \cup
        (IF ie.ignore.chain_root_ignore THEN config.ignore.pattern ELSE {})

\* markers_exact.contains(&name) || markers_regex_set.matches(name).len() > 0
IsMarker(ie, name) ==
    \/ name \in MarkersExact(ie)
    \/ SetMatchesLen(RegexSetMatches(MarkersPattern(ie), name)) > 0

\* the loop over dir_contents that searches the current dir for markers:
\* "match" at the first marker, "utf8" at a name that is not UTF-8 before it
RECURSIVE ScanMarkers(_, _, _)
ScanMarkers(ie, dir_contents, k) ==
    IF k > Len(dir_contents) THEN "none"
    ELSE IF ~IsUtf8(dir_contents[k].name) THEN "utf8"
    ELSE IF IsMarker(ie, dir_contents[k].name) THEN "match"
    ELSE ScanMarkers(ie, dir_contents, k + 1)

\* a variant of NotIgnoredName that leaves out the exact ignore list
NotIgnoredNameNoExact(ie, name) ==
    /\ ~StartsWithDot(name) \/ ie.markers.traverse_hidden
    /\ SetMatchesLen(RegexSetMatches(IgnorePattern(ie), name)) = 0

\* (!name.starts_with('.') || traverse_hidden) && !ignore_exact.contains(&name)
\* && ignore_regex_set.matches(&name).len() == 0
NotIgnoredName(ie, name) ==
    /\ ~StartsWithDot(name) \/ ie.markers.traverse_hidden
    /\ name \notin IgnoreExact(ie)
    /\ SetMatchesLen(RegexSetMatches(IgnorePattern(ie), name)) = 0

get_not_ignored_dir_entries(ie, path, dir_contents) ==
    IF ~RegexSetNewOk(IgnorePattern(ie))
    THEN [err |-> "Regex", entries |-> <<>>]
    ELSE IF \E k \in 1..Len(dir_contents) : ~IsUtf8(dir_contents[k].name)
    THEN [err |-> "Descend", entries |-> <<>>]
    ELSE LET kept == SelectSeq(dir_contents, LAMBDA e : NotIgnoredName(ie, e.name))
         IN [err |-> "none",
             entries |-> [k \in 1..Len(kept) |->
                            [path |-> Append(path, kept[k].name),
                             ft |-> kept[k].kind]]]

is_dir(path, ft) ==
    IF ft = "symlink" THEN PathIsDir(read_link(path)) ELSE ft = "dir"
is_file(path, ft) ==
    IF ft = "symlink" THEN PathIsFile(read_link(path)) ELSE ft = "file"

PathsOf(entries) == [k \in 1..Len(entries) |-> entries[k].path]

\* output.insert(path, ()), logged
Record(acc, p) == [acc EXCEPT !.output = Insert(@, p), !.rec = @ \cup {p}]
\* return Ok(y), logged
Return(acc, path, depth, y) ==
    [acc EXCEPT !.ret = y,
                !.calls = @ \cup {[path |-> path, depth |-> depth, ret |-> y]}]
Fail(acc, e) == [acc EXCEPT !.err = e]

RECURSIVE RecordAll(_, _, _)
RecordAll(acc, paths, k) ==
    IF k > Len(paths) THEN acc ELSE RecordAll(Record(acc, paths[k]), paths, k + 1)

\* a variant of OnReadDirError that fails the scan
OnReadDirErrorFatal(acc, path, depth) == Fail(acc, "IO")

\* Err(err) of read_dir: trace!(...); return Ok(false);
OnReadDirError(acc, path, depth) == Return(acc, path, depth, FALSE)

\* a variant of YieldsOnMarker that never stops at a marker
YieldsOnMarkerNever(ie, m) == FALSE

\* a marker was found and include_entry.yield_on_marker is set: the call
\* records path and returns without descending
YieldsOnMarker(ie, m) == m = "match" /\ ie.yield_on_marker

\* depth is a u8; a child call is made with depth + 1 only when
\* depth < include_entry.depth <= 255
U8Max == 255
\* "depth + 1" on a u8, as a build without overflow checks computes it
NextDepth(depth) == (depth + 1) % (U8Max + 1)
\* "depth + 1" does not fit a u8: a build with overflow checks panics
\* here, one without them wraps to 0
Overflows(depth) == depth + 1 > U8Max

RECURSIVE get_included_paths_list(_, _, _, _)
RECURSIVE walk_children(_, _, _, _, _, _)

\* a variant of walk_children that forgets what the children returned
walk_children_forgetful(children, k, depth, py, acc, ie) ==
    IF k > Len(children) THEN [acc EXCEPT !.ret = py]
    ELSE LET r == get_included_paths_list(children[k], NextDepth(depth), acc, ie)
         IN IF r.err # "none" THEN r
            ELSE walk_children(children, k + 1, depth, py, r, ie)

\* "walk current dir's children": the loop over children, from the k-th on,
\* with path_yields = py so far
walk_children(children, k, depth, py, acc, ie) ==
    IF k > Len(children) THEN [acc EXCEPT !.ret = py]
    ELSE LET r == get_included_paths_list(children[k], NextDepth(depth), acc, ie)
         IN IF r.err # "none" THEN r
            ELSE walk_children(children, k + 1, depth, py \/ r.ret, r, ie)

\* a variant of DepthReached that lets the walk go one level further
DepthReachedLate(depth, ie) == depth > ie.depth

\* "if depth >= include_entry.depth": the walk stops at this directory
DepthReached(depth, ie) == depth >= ie.depth

\* "if path_yields { output.insert(path) }; return Ok(path_yields)"
AtDepthLimit(acc, path, depth, path_yields) ==
    Return(IF path_yields THEN Record(acc, path) ELSE acc,
           path, depth, path_yields)

DirMode(path, depth, acc, ie, dir_contents) ==
    LET m == ScanMarkers(ie, dir_contents, 1) IN
    IF m = "utf8" THEN Fail(acc, "Descend")
    ELSE IF YieldsOnMarker(ie, m)
    THEN Return(Record(acc, path), path, depth, TRUE)
    ELSE IF DepthReached(depth, ie)
    THEN AtDepthLimit(acc, path, depth, m = "match")
    ELSE LET ents == get_not_ignored_dir_entries(ie, path, dir_contents) IN
         IF ents.err # "none" THEN Fail(acc, ents.err)
         ELSE LET children ==
                    PathsOf(SelectSeq(ents.entries,
                                      LAMBDA e : is_dir(e.path, e.ft)))
                  w == walk_children(children, 1, depth, m = "match", acc, ie)
              IN IF w.err # "none" THEN w
                 ELSE Return(IF w.ret /\ ie.include_intermediate_paths
                             THEN Record(w, path) ELSE w,
                             path, depth, w.ret)

FileMode(path, depth, acc, ie, dir_contents) ==
    LET ents == get_not_ignored_dir_entries(ie, path, dir_contents) IN
    IF ents.err # "none" THEN Fail(acc, ents.err)
    ELSE LET children ==
               PathsOf(SelectSeq(ents.entries, LAMBDA e : is_dir(e.path, e.ft)))
             files ==
               PathsOf(SelectSeq(ents.entries,
                                 LAMBDA e : ~is_dir(e.path, e.ft)
                                            /\ is_file(e.path, e.ft)))
             acc1 == RecordAll(acc, files, 1)
         IN IF DepthReached(depth, ie)
            THEN Return(acc1, path, depth, files # <<>>)
            ELSE LET w == walk_children(children, 1, depth, files # <<>>, acc1, ie)
                 IN IF w.err # "none" THEN w
                    ELSE Return(IF w.ret /\ ie.include_intermediate_paths
                                THEN Record(w, path) ELSE w,
                                path, depth, w.ret)

get_included_paths_list(path, depth, acc0, ie) ==
    LET acc == [acc0 EXCEPT !.reads = @ \cup {path}] IN
    IF ~Readable(path)
    THEN OnReadDirError(acc, path, depth)
    ELSE IF ~RegexSetNewOk(MarkersPattern(ie)) THEN Fail(acc, "Regex")
    ELSE IF ie.mode = "dir" THEN DirMode(path, depth, acc, ie, ReadDir(path))
    ELSE FileMode(path, depth, acc, ie, ReadDir(path))

\* the accumulator a root call starts from
NewAcc(output) ==
    [err |-> "none", ret |-> FALSE, output |-> output,
     reads |-> {}, rec |-> {}, calls |-> {}]

(***************************************************************************)
(* pick_project (src/src/selectors.rs).                                    *)
(***************************************************************************)
NotShown == << <<"-">> >>
NoPick == <<"-">>
EmptyPick == <<>>
NoScan == [root |-> <<>>, ei |-> 0, before |-> <<>>, err |-> "none", ret |-> FALSE,
           reads |-> {}, rec |-> {}, calls |-> {}]

\* no chain of calls is being followed
NoWalk == [limit |-> 0, depth |-> 0, levels |-> 0, overflow |-> FALSE,
           path |-> <<>>, pc |-> "none"]

\* the run of cli that pick_project is called from: a configuration file
\* given with --config was read and the subcommand is new-session
CliInPickProject ==
    [arg |-> <<"etc", "pfp.json">>, xdg |-> [set |-> FALSE, value |-> <<"">>],
     file |-> "ok", subc |-> "new-session", pc |-> "pick_project",
     path |-> <<"etc", "pfp.json">>, err |-> "none"]

Init ==
    /\ fs \in FsChoices
    /\ config \in ConfigChoices \cup ChainConfigs
    /\ pc = "expand"
    /\ ei = 1
    /\ pi = 1
    /\ expanded_path = <<>>
    /\ list = <<>>
    /\ err = "none"
    /\ shown = NotShown
    /\ pick = NoPick
    /\ scan = NoScan
    /\ cli = CliInPickProject
    /\ walk = NoWalk

\* a variant of PushRoot that never pushes the root
PushRootNever ==
    /\ pc = "push"
    /\ pc' = "scan"
    /\ UNCHANGED <<fs, config, ei, pi, expanded_path, list, err, shown, pick, scan,
                   cli, walk>>

\* a variant of ScanFailed that ignores the classifier's error
ScanFailedIgnored(r) == FALSE

\* the ? applied to the classifier's result: an Err returns from pick_project
ScanFailed(r) == r.err # "none"

\* let expanded_path = expand(path)?;
Expand ==
    /\ pc = "expand"
    /\ LET r == expand(config.include[ei].paths[pi]) IN
        IF r.err # "none"
        THEN /\ pc' = "failed"
             /\ err' = r.err
             /\ UNCHANGED expanded_path
        ELSE /\ pc' = "push"
             /\ expanded_path' = r.path
             /\ UNCHANGED err
    /\ UNCHANGED <<fs, config, ei, pi, list, shown, pick, scan, cli, walk>>

\* if include_entry.include_intermediate_paths { list.push(expanded_path.clone()); }
PushRoot ==
    /\ pc = "push"
    /\ list' = IF config.include[ei].include_intermediate_paths
               THEN Append(list, expanded_path) ELSE list
    /\ pc' = "scan"
    /\ UNCHANGED <<fs, config, ei, pi, expanded_path, err, shown, pick, scan,
                   cli, walk>>

\* get_included_paths_list(&expanded_path, 0, &mut list, include_entry, config)?;
\* and the step of the two for loops
ScanRoot ==
    /\ pc = "scan"
    /\ LET ie == config.include[ei]
           r == get_included_paths_list(expanded_path, 0, NewAcc(list), ie)
       IN /\ scan' = [root |-> expanded_path, ei |-> ei, before |-> list,
                      err |-> r.err, ret |-> r.ret, reads |-> r.reads,
                      rec |-> r.rec, calls |-> r.calls]
          /\ IF ScanFailed(r)
             THEN /\ pc' = "failed"
                  /\ err' = r.err
                  /\ UNCHANGED <<list, ei, pi>>
             ELSE /\ list' = r.output
                  /\ UNCHANGED err
                  /\ IF pi < Len(ie.paths)
                     THEN pi' = pi + 1 /\ ei' = ei /\ pc' = "expand"
                     ELSE IF ei < Len(config.include)
                     THEN pi' = 1 /\ ei' = ei + 1 /\ pc' = "expand"
                     ELSE UNCHANGED <<ei, pi>> /\ pc' = "select"
    /\ UNCHANGED <<fs, config, expanded_path, shown, pick, cli, walk>>

\* What becomes of the fzf process (src/src/fzf.rs): it runs to its end
\* ("ok"), or the step named fails: the spawn (no fzf on the PATH), the
\* write to its stdin, the flush, the wait, the read of its stdout; or one
\* of the two pipes is missing from the child.
FzfRuns ==
    {"ok", "spawn", "stdin", "write_all", "flush", "wait", "stdout",
     "read_to_string"}

\* execute_fzf_command(args, input): line is what the user picks among the
\* lines of input, EmptyPick when fzf is left without a pick
execute_fzf_command(run, input, line) ==
    IF run \in {"spawn", "write_all", "flush", "wait", "read_to_string"}
    THEN [err |-> "IO", result |-> EmptyPick]
    ELSE IF run \in {"stdin", "stdout"}
    THEN [err |-> "UnwrapIOStream", result |-> EmptyPick]
    ELSE [err |-> "none", result |-> line]

\* select_from_list(list, header, args)
select_from_list(run, input, line) ==
    LET r == execute_fzf_command(run, input, line) IN
    IF r.err # "none" THEN r
    ELSE IF r.result = EmptyPick THEN [err |-> "EmptyPick", result |-> EmptyPick]
    ELSE r

\* let pick = select_from_list(&dirs, ...)?: the selector is given the list
\* and returns one of its lines; Err(EmptyPick) when it returns nothing, and
\* the error of execute_fzf_command when fzf could not be run
Select ==
    /\ pc = "select"
    /\ shown' = list
    /\ \E run \in FzfRuns, line \in Range(list) \cup {EmptyPick} :
        LET r == select_from_list(run, list, line) IN
        IF r.err = "none"
        THEN pick' = r.result /\ pc' = "done" /\ UNCHANGED err
        ELSE /\ pc' = "failed"
             /\ err' = r.err
             /\ pick' = IF r.err = "EmptyPick" THEN EmptyPick ELSE pick
    /\ UNCHANGED <<fs, config, ei, pi, expanded_path, list, scan, cli, walk>>

Next == Expand \/ PushRoot \/ ScanRoot \/ Select

Spec == Init /\ [][Next]_vars

(***************************************************************************)
(* cli (src/src/cli.rs): the configuration is loaded, then the subcommand  *)
(* is dispatched.  The inputs of a run are the value of --config (arg),    *)
(* the environment variable XDG_CONFIG_HOME (xdg), the state of the file   *)
(* the expanded path names (file) and the subcommand (subc).               *)
(***************************************************************************)
CONFIG_PATH_DEFAULT == <<"${XDG_CONFIG_HOME}", "pfp", "config.json">>

CliArgs == { CONFIG_PATH_DEFAULT, <<"etc", "pfp.json">>, <<"$UNSET", "pfp.json">> }
\* not set; set to a directory; set to the empty string; set to the very
\* text of the reference
XdgChoices ==
    { [set |-> FALSE, value |-> <<"">>],
      [set |-> TRUE, value |-> <<"", "home", "u", ".config">>],
      [set |-> TRUE, value |-> <<"">>],
      [set |-> TRUE, value |-> <<"${XDG_CONFIG_HOME}">>] }
\* the file reads and parses; it cannot be read; it does not parse
FileChoices == {"ok", "unreadable", "unparsable"}
Subcommands ==
    {"kill-session", "sessions", "start", "new-pane", "new-session", "none"}

\* Config::default()
ConfigDefault ==
    [markers |-> MarkersDefault, ignore |-> IgnoreDefault,
     include |-> << [paths |-> << <<"$HOME">> >>, mode |-> "dir",
                     markers |-> MarkersDefault, ignore |-> IgnoreDefault,
                     include_intermediate_paths |-> TRUE,
                     yield_on_marker |-> TRUE, depth |-> 255] >>]
\* the configuration a file that parses holds
ConfigInFile ==
    [markers |-> MarkersDefault, ignore |-> IgnoreDefault,
     include |-> << [paths |-> << <<"repo">> >>, mode |-> "file",
                     markers |-> MarkersDefault, ignore |-> IgnoreDefault,
                     include_intermediate_paths |-> FALSE,
                     yield_on_marker |-> TRUE, depth |-> 1] >>]
\* no configuration loaded yet
NoConfig == [markers |-> MarkersDefault, ignore |-> IgnoreDefault, include |-> <<>>]

\* read_config(path): Err(Read) or Err(Parse), or the configuration
read_config(path, file) ==
    IF file = "unreadable" THEN [err |-> "Read", cfg |-> NoConfig]
    ELSE IF file = "unparsable" THEN [err |-> "Parse", cfg |-> NoConfig]
    ELSE [err |-> "none", cfg |-> ConfigInFile]

\* "path == CONFIG_PATH_DEFAULT", path being the expanded argument
IsDefaultPath(path) == path = CONFIG_PATH_DEFAULT

InitCli ==
    /\ cli \in [arg : CliArgs, xdg : XdgChoices, file : FileChoices,
                 subc : Subcommands, pc : {"expand"}, path : {<<>>},
                 err : {"none"}]
    /\ config = NoConfig
    /\ fs = Tree(<<>>, <<>>, <<G>>)
    /\ pc = "cli"
    /\ ei = 1
    /\ pi = 1
    /\ expanded_path = <<>>
    /\ list = <<>>
    /\ err = "none"
    /\ shown = NotShown
    /\ pick = NoPick
    /\ scan = NoScan
    /\ walk = NoWalk

\* let path = expand(arg_matches.get_one::<String>(CONFIG_ARG)...)?;
CliExpand ==
    /\ cli.pc = "expand"
    /\ LET r == expand(cli.arg)
       IN cli' = IF r.err # "none"
                 THEN [cli EXCEPT !.pc = "failed", !.err = r.err]
                 ELSE [cli EXCEPT !.pc = "read_config", !.path = r.path]
    /\ UNCHANGED <<fs, config, pc, ei, pi, expanded_path, list, err, shown, pick,
                   scan, walk>>

\* let config = { let cfg = read_config(&path); if ... { unwrap_or_default() }
\* else { cfg? } };
CliReadConfig ==
    /\ cli.pc = "read_config"
    /\ LET cfg == read_config(cli.path, cli.file)
       IN IF cfg.err # "none" /\ IsDefaultPath(cli.path)
          THEN /\ config' = ConfigDefault
               /\ cli' = [cli EXCEPT !.pc = "dispatch"]
          ELSE IF cfg.err # "none"
          THEN /\ cli' = [cli EXCEPT !.pc = "failed", !.err = "Config"]
               /\ UNCHANGED config
          ELSE /\ config' = cfg.cfg
               /\ cli' = [cli EXCEPT !.pc = "dispatch"]
    /\ UNCHANGED <<fs, pc, ei, pi, expanded_path, list, err, shown, pick, scan,
                   walk>>

\* match arg_matches.subcommand(): pick_project for new-pane and
\* new-session, tmux commands for the others, the help text for none
CliDispatch ==
    /\ cli.pc = "dispatch"
    /\ cli' = [cli EXCEPT !.pc =
                  IF cli.subc \in {"new-pane", "new-session"} THEN "pick_project"
                  ELSE IF cli.subc = "none" THEN "help"
                  ELSE "tmux"]
    /\ UNCHANGED <<fs, config, pc, ei, pi, expanded_path, list, err, shown, pick,
                   scan, walk>>

NextCli == CliExpand \/ CliReadConfig \/ CliDispatch

SpecCli == InitCli /\ [][NextCli]_vars

(***************************************************************************)
(* The depth counter along one chain of nested classifier calls, from the  *)
(* root call pick_project makes with depth 0 (src/src/selectors.rs:35)     *)
(* down through "walk current dir's children" (src/src/fs.rs:158-163,      *)
(* 198-203), in the tree with the directory cycle and in the tree of       *)
(* nested directories.  limit is include_entry.depth, any u8; path and     *)
(* depth are the arguments of the current call, levels the number of calls *)
(* it is nested in.  A call whose path goes through more than MaxSymlinks  *)
(* links cannot read its directory and returns.                            *)
(***************************************************************************)
InitDepth ==
    /\ fs \in {LoopFs, DeepFs}
    /\ walk \in [limit : 0..U8Max, depth : {0}, levels : {0},
                  overflow : {FALSE}, path : {<<"repo">>}, pc : {"call"}]
    /\ cli = CliInPickProject
    /\ config = NoConfig
    /\ pc = "scan"
    /\ ei = 1
    /\ pi = 1
    /\ expanded_path = <<"repo">>
    /\ list = <<>>
    /\ err = "none"
    /\ shown = NotShown
    /\ pick = NoPick
    /\ scan = NoScan

\* the entries of the directory of the current call that is_dir accepts
WalkChildren ==
    IF Readable(walk.path)
    THEN { Append(walk.path, ReadDir(walk.path)[k].name) :
             k \in { x \in 1..Len(ReadDir(walk.path)) :
                       is_dir(Append(walk.path, ReadDir(walk.path)[x].name),
                              ReadDir(walk.path)[x].kind) } }
    ELSE {}

\* a variant of WalkChild that makes the child call whatever the depth
WalkChildUnguarded ==
    /\ walk.pc = "call"
    /\ walk.levels <= U8Max
    /\ \E child \in WalkChildren :
          walk' = [walk EXCEPT !.path = child,
                               !.depth = NextDepth(walk.depth),
                               !.levels = walk.levels + 1,
                               !.overflow = walk.overflow \/ Overflows(walk.depth)]
    /\ UNCHANGED <<fs, config, pc, ei, pi, expanded_path, list, err, shown, pick,
                   scan, cli>>

\* read_dir was Ok and the depth check did not return: the call goes into
\* a child with get_included_paths_list(&child, depth + 1, ..)
WalkChild ==
    /\ walk.pc = "call"
    /\ ~DepthReached(walk.depth, [depth |-> walk.limit])
    /\ \E child \in WalkChildren :
          walk' = [walk EXCEPT !.path = child,
                               !.depth = NextDepth(walk.depth),
                               !.levels = walk.levels + 1,
                               !.overflow = walk.overflow \/ Overflows(walk.depth)]
    /\ UNCHANGED <<fs, config, pc, ei, pi, expanded_path, list, err, shown, pick,
                   scan, cli>>

\* the call returns: at the depth check, on a marker with yield_on_marker,
\* because the directory cannot be read, or after its children
WalkReturn ==
    /\ walk.pc = "call"
    /\ walk' = [walk EXCEPT !.pc = "returned"]
    /\ UNCHANGED <<fs, config, pc, ei, pi, expanded_path, list, err, shown, pick,
                   scan, cli>>

NextDepthWalk == WalkChild \/ WalkReturn

SpecDepth == InitDepth /\ [][NextDepthWalk]_vars

(***************************************************************************)
(* Vocabulary of the properties.  scan is the log of the last classifier   *)
(* call pick_project made: its root, the include entry it ran under, the   *)
(* paths read_dir was called on (reads), the paths output.insert was       *)
(* called with (rec) and the calls that returned Ok (calls).               *)
(***************************************************************************)
Scanned == scan.ei > 0
ScanEntry == config.include[scan.ei]
IsPrefix(a, b) == Len(a) <= Len(b) /\ SubSeq(b, 1, Len(a)) = a
ProperDescendant(p, d) == Len(p) > Len(d) /\ IsPrefix(d, p)
\* p is a directory of the file system, readable or not
IsDirPath(p) == RealDir(Canon(p))
\* name matches one of the regular expressions ps
MatchesAny(ps, name) == \E p \in ps : RegexIsMatch(p, name)
\* name matches the effective marker set of ie: it is one of the exact
\* markers or matches one of the patterns
MatchesMarker(ie, name) ==
    name \in MarkersExact(ie) \/ MatchesAny(MarkersPattern(ie), name)
\* the directory at p has a direct child whose name matches the effective
\* marker set of ie
HasMarkerChild(ie, p) ==
    /\ Readable(p)
    /\ \E k \in 1..Len(ReadDir(p)) :
          IsUtf8(ReadDir(p)[k].name) /\ MatchesMarker(ie, ReadDir(p)[k].name)
\* name is in the effective ignore set of ie, exact or pattern
IgnoredName(ie, name) ==
    name \in IgnoreExact(ie) \/ MatchesAny(IgnorePattern(ie), name)
\* the loops of pick_project are past the p-th path of the e-th entry
RootDone(e, p) ==
    \/ e < ei
    \/ e = ei /\ p < pi
    \/ pc \in {"select", "done"}
    \/ pc = "failed" /\ shown # NotShown
NoRepeat(s) == \A a, b \in 1..Len(s) : s[a] = s[b] => a = b

(***************************************************************************)
(* C1 - Root inclusion: once the scan of a configured root whose include   *)
(* entry has include_intermediate_paths = true is over, the root is in the *)
(* list, and it is in the list handed to the selector, whatever the        *)
(* classifier found under it.                                              *)
(***************************************************************************)
C1_RootInclusion ==
    \A e \in 1..Len(config.include) :
        \A p \in 1..Len(config.include[e].paths) :
            config.include[e].include_intermediate_paths =>
                /\ RootDone(e, p) =>
                      expand(config.include[e].paths[p]).path \in Range(list)
                /\ shown # NotShown =>
                      expand(config.include[e].paths[p]).path \in Range(shown)

\* an unreadable root, under which the classifier recorded nothing, was
\* handed to the selector
C1_Witness ==
    /\ pc = "done"
    /\ ScanEntry.include_intermediate_paths
    /\ ~Readable(scan.root)
    /\ scan.rec = {}
    /\ scan.root \in Range(shown)

(***************************************************************************)
(* C2 - Upward propagation: when the scan of a root has finished under an  *)
(* entry with include_intermediate_paths = true, every directory the       *)
(* classifier recorded has all its ancestors, up to and including the scan *)
(* root, recorded too and in the list.                                     *)
(***************************************************************************)
C2_UpwardPropagation ==
    (Scanned /\ scan.err = "none" /\ ScanEntry.include_intermediate_paths) =>
        \A c \in scan.calls :
            c.path \in scan.rec =>
                \A k \in Len(scan.root)..Len(c.path) :
                    /\ SubSeq(c.path, 1, k) \in scan.rec
                    /\ SubSeq(c.path, 1, k) \in Range(list)

\* a directory two levels below the root was recorded in DirectoryMarker mode
C2_Witness ==
    /\ Scanned /\ scan.err = "none"
    /\ ScanEntry.include_intermediate_paths
    /\ ScanEntry.mode = "dir"
    /\ \E c \in scan.calls :
          c.path \in scan.rec /\ Len(c.path) >= Len(scan.root) + 2

(***************************************************************************)
(* C3 - Marker short-circuit: with yield_on_marker = true in               *)
(* DirectoryMarker mode, a call on a directory that has a direct child     *)
(* matching the effective marker set records the directory and returns     *)
(* true, and the scan neither reads nor records anything below it.         *)
(***************************************************************************)
C3_MarkerShortCircuit ==
    (Scanned /\ ScanEntry.mode = "dir" /\ ScanEntry.yield_on_marker) =>
        \A c \in scan.calls :
            HasMarkerChild(ScanEntry, c.path) =>
                /\ c.ret
                /\ c.path \in scan.rec
                /\ \A q \in scan.rec \cup scan.reads :
                      ~ProperDescendant(q, c.path)

\* the directory that matched has a directory below it that holds a marker too
C3_Witness ==
    /\ Scanned /\ ScanEntry.mode = "dir" /\ ScanEntry.yield_on_marker
    /\ \E c \in scan.calls :
          /\ HasMarkerChild(ScanEntry, c.path)
          /\ \E d \in DOMAIN fs :
                ProperDescendant(d, c.path) /\ HasMarkerChild(ScanEntry, d)

(***************************************************************************)
(* C4 - Depth bound: no path recorded during the scan of a root is more    *)
(* than include_entry.depth levels below that root, in both modes.         *)
(***************************************************************************)
C4_DepthBound ==
    Scanned =>
        \A p \in scan.rec : Len(p) - Len(scan.root) <= ScanEntry.depth

(***************************************************************************)
(* C5 - Ignore precedence, as claimed: a directory whose name is in the    *)
(* effective ignore set is never recorded and never read by the scan.      *)
(***************************************************************************)
C5_IgnorePrecedenceAnyDir ==
    Scanned =>
        \A p \in scan.rec \cup scan.reads :
            IsDirPath(p) => ~IgnoredName(ScanEntry, Name(p))

(***************************************************************************)
(* C5 - Ignore precedence, amended: a directory other than the scan root   *)
(* itself whose name is in the effective ignore set is never recorded and  *)
(* never read by the scan, even if it holds a marker.                      *)
(***************************************************************************)
C5_IgnorePrecedence ==
    Scanned =>
        \A p \in (scan.rec \cup scan.reads) \ {scan.root} :
            IsDirPath(p) => ~IgnoredName(ScanEntry, Name(p))

\* an ignored directory that holds a marker lies in a directory whose
\* children the scan walked, and was not read
C5_Witness ==
    /\ Scanned /\ scan.err = "none" /\ ScanEntry.mode = "dir"
    /\ \E d \in DOMAIN fs :
          /\ ProperDescendant(d, scan.root)
          /\ IgnoredName(ScanEntry, Name(d))
          /\ HasMarkerChild(ScanEntry, d)
          /\ d \notin scan.reads
          /\ \E c \in scan.calls :
                /\ c.path = Front(d)
                /\ c.depth < ScanEntry.depth
                /\ ~YieldsOnMarker(ScanEntry,
                                   ScanMarkers(ScanEntry, ReadDir(c.path), 1))

(***************************************************************************)
(* C6 - No duplicates: the output list, and the list handed to the         *)
(* selector, never hold the same path twice.                               *)
(***************************************************************************)
C6_NoDuplicates ==
    /\ NoRepeat(list)
    /\ shown # NotShown => NoRepeat(shown)

(***************************************************************************)
(* C7 - The worked example: root repo holding repo/.git and repo/sub/.git, *)
(* exact marker ".git", yield_on_marker, include_intermediate_paths,       *)
(* depth 10.                                                               *)
(***************************************************************************)
ExampleFs == Tree(<<G, S>>, <<G>>, <<G>>)
ExampleEntry ==
    [paths |-> << <<"repo">> >>, mode |-> "dir",
     markers |-> [exact |-> {".git"}, pattern |-> {}, traverse_hidden |-> TRUE,
                  chain_root_markers |-> TRUE],
     ignore |-> IgnoreDefault,
     include_intermediate_paths |-> TRUE, yield_on_marker |-> TRUE,
     depth |-> 10]
ExampleScanned ==
    /\ fs = ExampleFs
    /\ config.include = <<ExampleEntry>>
    /\ pc = "select"

\* C7 as claimed: the output of the example is exactly {repo, repo/sub}
C7_ExampleOutputWithSub ==
    ExampleScanned => Range(list) = { <<"repo">>, <<"repo", "sub">> }

\* C7 amended: the output of the example is exactly {repo}; repo is recorded
\* by its own marker match and nothing below it is read
C7_ExampleOutput ==
    ExampleScanned =>
        /\ list = << <<"repo">> >>
        /\ scan.rec = { <<"repo">> }
        /\ scan.reads = { <<"repo">> }

\* the example has been scanned
C7_Witness == ExampleScanned /\ scan.ret

(***************************************************************************)
(* C8 - All-or-nothing: when the expansion of a root path or the           *)
(* classification of a root fails, pick_project has returned that error    *)
(* and the selector has not been given any list.                           *)
(***************************************************************************)
C8_AllOrNothing ==
    /\ (Scanned /\ scan.err # "none") =>
          pc = "failed" /\ err = scan.err /\ shown = NotShown /\ pick = NoPick
    /\ err \in {"EnvVar", "Regex", "Descend"} =>
          pc = "failed" /\ shown = NotShown /\ pick = NoPick
    /\ shown # NotShown =>
          \A e \in 1..Len(config.include) :
              \A p \in 1..Len(config.include[e].paths) :
                  expand(config.include[e].paths[p]).err = "none"

\* a later root failed after an earlier root had put paths in the list
C8_Witness ==
    /\ pc = "failed"
    /\ err = "Descend"
    /\ Len(scan.before) >= 2
    /\ shown = NotShown

(***************************************************************************)
(* C9 - Invalid pattern: a scan under an entry whose effective marker or   *)
(* ignore patterns hold an invalid regular expression ends with the regex  *)
(* error, before any directory is read and before any path is recorded.    *)
(***************************************************************************)
InvalidPatterns(ie) ==
    ~RegexSetNewOk(MarkersPattern(ie)) \/ ~RegexSetNewOk(IgnorePattern(ie))

C9_InvalidPatternFatalFirst ==
    (Scanned /\ InvalidPatterns(ScanEntry)) =>
        /\ scan.err = "Regex"
        /\ scan.reads = {}
        /\ scan.rec = {}

(***************************************************************************)
(* C10 - Unreadable directory: a call on a directory read_dir cannot read  *)
(* returns Ok(false) and records nothing; the scan then goes on to the     *)
(* other children of its parent, and an unreadable root does not fail      *)
(* pick_project.                                                           *)
(***************************************************************************)
C10_UnreadableNotAnError ==
    Scanned =>
        \A p \in scan.reads :
            ~Readable(p) =>
                /\ [path |-> p, depth |-> Len(p) - Len(scan.root), ret |-> FALSE]
                      \in scan.calls
                /\ p \notin scan.rec
                /\ (p # scan.root /\ scan.err = "none") =>
                      \A k \in 1..Len(ReadDir(Front(p))) :
                          (/\ is_dir(Append(Front(p), ReadDir(Front(p))[k].name),
                                     ReadDir(Front(p))[k].kind)
                           /\ NotIgnoredName(ScanEntry,
                                             ReadDir(Front(p))[k].name))
                          => Append(Front(p), ReadDir(Front(p))[k].name)
                                 \in scan.reads
                /\ p = scan.root =>
                      /\ scan.err = "none" /\ ~scan.ret /\ scan.rec = {}
                      /\ err \notin {"Regex", "Descend"}
                      /\ err \in {"IO", "UnwrapIOStream"} => shown # NotShown

\* an unreadable directory was read before a sibling that was then recorded
C10_Witness ==
    /\ Scanned /\ scan.err = "none"
    /\ \E p \in scan.reads :
          /\ ~Readable(p)
          /\ p # scan.root
          /\ \E q \in scan.rec :
                q # p /\ Len(q) = Len(p) /\ Front(q) = Front(p) /\ q \in DOMAIN fs

(***************************************************************************)
(* Vocabulary of the symbolic links.  What a link resolves to is what the  *)
(* kernel makes of it (Canon), whatever is_dir and is_file say.            *)
(***************************************************************************)
\* the entries of the directory at q that are symbolic links, as paths
LinksIn(q) ==
    { Append(q, ReadDir(q)[k].name) :
        k \in { x \in 1..Len(ReadDir(q)) : ReadDir(q)[x].kind = "symlink" } }
\* the link at p leads nowhere
BrokenLink(p) == ~RealDir(Canon(p)) /\ ~RealFile(Canon(p))
\* the link at p leads to a directory above the link
CyclicLink(p) == RealDir(Canon(p)) /\ IsPrefix(Canon(p), Canon(Front(p)))

(***************************************************************************)
(* C11 - Broken and cyclic symlinks: an entry of a directory the scan read *)
(* that is a broken symlink, or a symlink to one of its own ancestor       *)
(* directories, is classified neither as a directory nor as a file, is     *)
(* never read and never recorded.                                          *)
(***************************************************************************)
C11_BrokenOrCyclicSkipped ==
    Scanned =>
        \A q \in scan.reads :
            Readable(q) =>
                \A p \in LinksIn(q) :
                    (BrokenLink(p) \/ CyclicLink(p)) =>
                        /\ ~is_dir(p, "symlink")
                        /\ ~is_file(p, "symlink")
                        /\ p \notin scan.reads
                        /\ p \notin scan.rec

(***************************************************************************)
(* C12 - Termination: the scan of a root always comes to an end, with an   *)
(* error or with the root call returned, under every rule set and in a     *)
(* file system with a directory cycle: every call of the classifier is at  *)
(* a depth of at most include_entry.depth, which is at most 255 (u8), its  *)
(* path is that many segments below the root, and nothing is read further  *)
(* down.                                                                   *)
(***************************************************************************)
C12_Termination ==
    Scanned =>
        /\ scan.err \in {"none", "Regex", "Descend"}
        /\ scan.err = "none" =>
              [path |-> scan.root, depth |-> 0, ret |-> scan.ret] \in scan.calls
        /\ ScanEntry.depth <= 255
        /\ \A c \in scan.calls :
              /\ c.depth <= ScanEntry.depth
              /\ Len(c.path) = Len(scan.root) + c.depth
        /\ \A p \in scan.reads :
              /\ IsPrefix(scan.root, p)
              /\ Len(p) - Len(scan.root) <= ScanEntry.depth

\* a scan went round the directory cycle until the depth limit stopped it
C12_Witness ==
    /\ Scanned /\ scan.err = "none"
    /\ fs = LoopFs
    /\ \E c \in scan.calls :
          /\ c.depth = ScanEntry.depth
          /\ CyclicLink(c.path)
          /\ \E k \in 1..(Len(c.path) - 1) : c.path[k] = "loop"

(***************************************************************************)
(* C13 - Non-UTF8 entry name: when a directory the scan read holds an      *)
(* entry whose name is not valid UTF-8, the scan ends with the descend     *)
(* error, wherever that entry stands among the entries of the directory    *)
(* and whatever the mode and flags (the patterns of the entry being valid  *)
(* regular expressions).                                                   *)
(***************************************************************************)
HasBadName(q) ==
    Readable(q) /\ \E k \in 1..Len(ReadDir(q)) : ~IsUtf8(ReadDir(q)[k].name)

C13_NonUtf8Fatal ==
    (Scanned /\ ~InvalidPatterns(ScanEntry)) =>
        \A q \in scan.reads : HasBadName(q) => scan.err = "Descend"

(***************************************************************************)
(* C14 - Rule merging: the exact and pattern marker sets a scan works with *)
(* are the sets of the entry united with the global sets when the entry's  *)
(* chain_root_markers is true, and the sets of the entry alone when it is  *)
(* false; so for the ignore sets with chain_root_ignore.  The scan works   *)
(* with these sets: in DirectoryMarker mode a directory at the depth limit *)
(* with an entry whose name is in the merged marker sets is recorded, and  *)
(* with empty merged marker patterns no other directory is; no directory   *)
(* below the root with a name in the merged ignore sets is read.  Empty    *)
(* pattern sets raise no error and match no name: the marker test and the  *)
(* ignore test of the code are then the tests on the exact sets.           *)
(***************************************************************************)
MergedMarkersExact ==
    IF ScanEntry.markers.chain_root_markers
    THEN ScanEntry.markers.exact \cup config.markers.exact
    ELSE ScanEntry.markers.exact
MergedMarkersPattern ==
    IF ScanEntry.markers.chain_root_markers
    THEN ScanEntry.markers.pattern \cup config.markers.pattern
    ELSE ScanEntry.markers.pattern
MergedIgnoreExact ==
    IF ScanEntry.ignore.chain_root_ignore
    THEN ScanEntry.ignore.exact \cup config.ignore.exact
    ELSE ScanEntry.ignore.exact
MergedIgnorePattern ==
    IF ScanEntry.ignore.chain_root_ignore
    THEN ScanEntry.ignore.pattern \cup config.ignore.pattern
    ELSE ScanEntry.ignore.pattern
\* name is in the merged sets, exact or by one of the patterns
InMerged(exact, pattern, name) ==
    name \in exact \/ \E pat \in pattern : RegexIsMatch(pat, name)

C14_RuleMerging ==
    Scanned =>
        /\ MarkersExact(ScanEntry) = MergedMarkersExact
        /\ MarkersPattern(ScanEntry) = MergedMarkersPattern
        /\ IgnoreExact(ScanEntry) = MergedIgnoreExact
        /\ IgnorePattern(ScanEntry) = MergedIgnorePattern
        /\ (scan.err = "none" /\ ScanEntry.mode = "dir") =>
              \A c \in scan.calls :
                  (c.depth = ScanEntry.depth /\ Readable(c.path)) =>
                      /\ (\E k \in 1..Len(ReadDir(c.path)) :
                              InMerged(MergedMarkersExact, MergedMarkersPattern,
                                       ReadDir(c.path)[k].name))
                            => c.path \in scan.rec
                      /\ (MergedMarkersPattern = {} /\ c.path \in scan.rec) =>
                            \E k \in 1..Len(ReadDir(c.path)) :
                                ReadDir(c.path)[k].name \in MergedMarkersExact
        /\ \A q \in scan.reads \ {scan.root} :
              ~InMerged(MergedIgnoreExact, MergedIgnorePattern, Name(q))
        /\ (MergedMarkersPattern = {} /\ MergedIgnorePattern = {}) =>
              /\ scan.err # "Regex"
              /\ \A n \in DirNames :
                    /\ IsMarker(ScanEntry, n) <=> n \in MergedMarkersExact
                    /\ NotIgnoredName(ScanEntry, n) <=>
                          /\ n \notin MergedIgnoreExact
                          /\ ~StartsWithDot(n)
                               \/ ScanEntry.markers.traverse_hidden

\* a scan under an entry that chains both global sets and has none of its
\* own recorded a directory for a global marker and kept out of a directory
\* the global ignore set names
C14_Witness ==
    /\ Scanned /\ scan.err = "none" /\ ScanEntry.mode = "dir"
    /\ ScanEntry.markers.chain_root_markers /\ ScanEntry.ignore.chain_root_ignore
    /\ ScanEntry.markers.exact = {} /\ ScanEntry.markers.pattern = {}
    /\ ScanEntry.ignore.exact = {} /\ ScanEntry.ignore.pattern = {}
    /\ \E c \in scan.calls :
          /\ c.path \in scan.rec
          /\ HasMarkerChild(ScanEntry, c.path)
    /\ \E c \in scan.calls :
          /\ c.depth < ScanEntry.depth
          /\ Readable(c.path)
          /\ \E k \in 1..Len(ReadDir(c.path)) :
                /\ ReadDir(c.path)[k].kind = "dir"
                /\ IgnoredName(ScanEntry, ReadDir(c.path)[k].name)
                /\ Append(c.path, ReadDir(c.path)[k].name) \notin scan.reads

(***************************************************************************)
(* C15 - Wildcard marker: with the value "*" in the effective marker set,  *)
(* exact or pattern, every directory a scan in DirectoryMarker mode read   *)
(* that has at least one entry (all names being UTF-8) had a marker match: *)
(* the call on it returned true.                                           *)
(***************************************************************************)
C15_WildcardMarker ==
    (/\ Scanned
     /\ ScanEntry.mode = "dir"
     /\ "*" \in MarkersExact(ScanEntry) \cup MarkersPattern(ScanEntry)) =>
        \A q \in scan.reads :
            (Readable(q) /\ ReadDir(q) # <<>> /\ ~HasBadName(q)) =>
                \E c \in scan.calls : c.path = q /\ c.ret

(***************************************************************************)
(* C16 - FileListing mode: in every directory a finished scan visited,     *)
(* every entry that resolves to a file (a file, or a symlink that leads to *)
(* one) and is neither ignored nor hidden (unless traverse_hidden) is      *)
(* recorded and makes the call on the directory return true; a marker      *)
(* among the entries does not stop the descent: below the depth limit      *)
(* every directory entry that passes the same filter is read.              *)
(***************************************************************************)
ResolvesToFile(p, kind) ==
    kind = "file" \/ (kind = "symlink" /\ RealFile(Canon(p)))
ResolvesToDir(p, kind) ==
    kind = "dir" \/ (kind = "symlink" /\ RealDir(Canon(p)))
\* the filter of the claim: not ignored, and not hidden unless traverse_hidden
PassesFilter(ie, name) ==
    /\ ~IgnoredName(ie, name)
    /\ ~StartsWithDot(name) \/ ie.markers.traverse_hidden

C16_FileListing ==
    (Scanned /\ ScanEntry.mode = "file" /\ scan.err = "none") =>
        \A c \in scan.calls :
            Readable(c.path) =>
                \A k \in 1..Len(ReadDir(c.path)) :
                    LET e == ReadDir(c.path)[k]
                        p == Append(c.path, e.name)
                    IN PassesFilter(ScanEntry, e.name) =>
                          /\ ResolvesToFile(p, e.kind) =>
                                p \in scan.rec /\ c.ret
                          /\ (ResolvesToDir(p, e.kind)
                                 /\ c.depth < ScanEntry.depth) =>
                                p \in scan.reads

(***************************************************************************)
(* C17 - Default-config fallback: when --config is left at its default     *)
(* value, XDG_CONFIG_HOME is set, and the configuration file cannot be     *)
(* read or parsed, cli does not fail: once the configuration is loaded it  *)
(* is Config::default().                                                   *)
(***************************************************************************)
C17_DefaultConfigFallback ==
    (/\ cli.arg = CONFIG_PATH_DEFAULT
     /\ cli.xdg.set
     /\ cli.file # "ok"
     /\ cli.pc \notin {"expand", "read_config"}) =>
        /\ cli.pc # "failed"
        /\ config = ConfigDefault

(***************************************************************************)
(* C18 - Depth limit in DirectoryMarker mode: a call on a directory at     *)
(* depth >= include_entry.depth records the directory exactly when one of  *)
(* its entries matches the effective marker set (is an exact marker or     *)
(* matches one of the patterns), whatever include_intermediate_paths and   *)
(* yield_on_marker are; it returns that same flag, and nothing below the   *)
(* directory is read or recorded.                                          *)
(***************************************************************************)
C18_DepthLimitDir ==
    (Scanned /\ ScanEntry.mode = "dir") =>
        \A c \in scan.calls :
            c.depth >= ScanEntry.depth =>
                /\ c.path \in scan.rec <=> HasMarkerChild(ScanEntry, c.path)
                /\ c.ret <=> HasMarkerChild(ScanEntry, c.path)
                /\ \A q \in scan.reads \cup scan.rec :
                      ~ProperDescendant(q, c.path)

(***************************************************************************)
(* C19 - FileListing mode with include_intermediate_paths = true: when a   *)
(* scan has finished, the directory that holds a recorded file is in the   *)
(* output list too, also when that directory was reached at the depth      *)
(* limit.                                                                  *)
(***************************************************************************)
C19_FileDirRecorded ==
    (/\ Scanned /\ scan.err = "none"
     /\ ScanEntry.mode = "file"
     /\ ScanEntry.include_intermediate_paths) =>
        \A c \in scan.calls :
            (\E p \in scan.rec : Front(p) = c.path /\ ~IsDirPath(p)) =>
                c.path \in Range(list)

(***************************************************************************)
(* C20 - DirectoryMarker mode: when a scan has finished, every directory   *)
(* it visited that has an entry matching the effective marker set is in    *)
(* the output list, under every combination of yield_on_marker and         *)
(* include_intermediate_paths and at every depth; and a call that returned *)
(* true recorded its own path or a path beneath it.                        *)
(***************************************************************************)
C20_MarkerDirRecorded ==
    (Scanned /\ scan.err = "none" /\ ScanEntry.mode = "dir") =>
        \A c \in scan.calls :
            /\ HasMarkerChild(ScanEntry, c.path) => c.path \in Range(list)
            /\ c.ret => \E p \in scan.rec : IsPrefix(c.path, p)

(***************************************************************************)
(* C21 - Depth counter: in every call of a chain that starts at depth 0,   *)
(* depth <= include_entry.depth <= 255; a child call is made only from a   *)
(* depth below include_entry.depth; so depth + 1 never overflows the u8:   *)
(* the counter always equals the number of calls the call is nested in,    *)
(* which is the number of segments of its path below the root, also with   *)
(* include_entry.depth = 255.                                              *)
(***************************************************************************)
C21_DepthNoOverflow ==
    walk.pc # "none" =>
        /\ walk.depth <= walk.limit
        /\ walk.limit <= U8Max
        /\ walk.levels > 0 => walk.levels - 1 < walk.limit
        /\ ~walk.overflow
        /\ walk.depth = walk.levels
        /\ Len(walk.path) = Len(expanded_path) + walk.depth

\* under the default depth 255 the chain went down to depth 255 through
\* nested directories and the call there returned
C21_Witness ==
    /\ fs = DeepFs
    /\ Len(walk.path) = U8Max + 1
    /\ walk.limit = U8Max
    /\ walk.depth = U8Max
    /\ walk.levels = U8Max
    /\ walk.pc = "returned"
====
